---------------------------- MODULE Spec2Model ----------------------------
(***************************************************************************)
(* Plant disease prediction: the validation / label selection / display    *)
(* pipeline of "Back End/utilities.py" and the /api/predict handler of      *)
(* "Back End/app.py".                                                       *)
(*                                                                         *)
(* Python strings are TLA+ strings; the built-in string methods the code   *)
(* calls (lower, capitalize, replace, split, join, rsplit, in) are          *)
(* operators that compute what the built-ins compute, character by          *)
(* character.  A call either returns a value or raises: an outcome is       *)
(* Ok(v) or Exc(e), and a try/except is the operator Catch.                 *)
(***************************************************************************)
EXTENDS Integers, Sequences, FiniteSets, TLC

VARIABLES
    HAS_PIL,     \* utilities.py: set at import, PIL importable
    HAS_NUMPY,   \* utilities.py: set at import, NumPy importable
    hashSeed,    \* the process's string-hash seed (PYTHONHASHSEED, random per process)
    servedSeed,  \* the hash seed of the process that served the last call
    op,          \* the last call: which entry point ran
    arg,         \* the last call: its arguments
    ret          \* the last call: its outcome (a value returned, or an exception raised)

vars == <<HAS_PIL, HAS_NUMPY, hashSeed, servedSeed, op, arg, ret>>

----------------------------------------------------------------------------
(* Bounds of the model                                                     *)

\* Seeds 0..MaxSeed of the per-process string hash.
MaxSeed == 2

\* The string hash is HashBits wide (64 in CPython), signed.
HashBits == 7

----------------------------------------------------------------------------
(* Python built-ins on strings                                             *)

Ch(s, i) == SubSeq(s, i, i)

UpperLetters == "ABCDEFGHIJKLMNOPQRSTUVWXYZ"
LowerLetters == "abcdefghijklmnopqrstuvwxyz"

\* The characters of the strings the code hashes, in ASCII order.
HashAlphabet == " (),-./0123456789:ABCDEFGHIJKLMNOPQRSTUVWXYZ[]_abcdefghijklmnopqrstuvwxyz"

Pos(c, alphabet) ==
    IF \E i \in 1..Len(alphabet) : Ch(alphabet, i) = c
    THEN CHOOSE i \in 1..Len(alphabet) : Ch(alphabet, i) = c
    ELSE 0

IsUpperCh(c) == Pos(c, UpperLetters) > 0
IsLowerCh(c) == Pos(c, LowerLetters) > 0

LowerCh(c) == IF IsUpperCh(c) THEN Ch(LowerLetters, Pos(c, UpperLetters)) ELSE c
UpperCh(c) == IF IsLowerCh(c) THEN Ch(UpperLetters, Pos(c, LowerLetters)) ELSE c

\* str.lower(): every character lower-cased (the string is halved to keep the
\* evaluation shallow)
RECURSIVE Lower(_)
Lower(s) ==
    IF Len(s) = 0 THEN ""
    ELSE IF Len(s) = 1 THEN LowerCh(s)
    ELSE Lower(SubSeq(s, 1, Len(s) \div 2)) \o Lower(SubSeq(s, (Len(s) \div 2) + 1, Len(s)))

\* str.capitalize(): the first character upper-cased, all the others lower-cased
Capitalize(s) == IF s = "" THEN "" ELSE UpperCh(Head(s)) \o Lower(Tail(s))

StartsWith(s, p) == Len(s) >= Len(p) /\ SubSeq(s, 1, Len(p)) = p

\* sub in s
Contains(s, sub) ==
    \E i \in 1..(Len(s) - Len(sub) + 1) : SubSeq(s, i, i + Len(sub) - 1) = sub

\* s.find(sub) + 1: the index of the first occurrence of sub in s, 0 when there is none
FirstIndex(s, sub) ==
    IF Contains(s, sub)
    THEN CHOOSE i \in 1..(Len(s) - Len(sub) + 1) :
            /\ SubSeq(s, i, i + Len(sub) - 1) = sub
            /\ \A j \in 1..(i - 1) : SubSeq(s, j, j + Len(sub) - 1) # sub
    ELSE 0

\* Variant: only the first occurrence is replaced.
Replace_FirstOnly(s, old, new) ==
    IF ~Contains(s, old) THEN s
    ELSE SubSeq(s, 1, FirstIndex(s, old) - 1) \o new
            \o SubSeq(s, FirstIndex(s, old) + Len(old), Len(s))

\* s.replace(old, new): every non-overlapping occurrence, left to right
RECURSIVE Replace(_, _, _)
Replace(s, old, new) ==
    IF ~Contains(s, old) THEN s
    ELSE SubSeq(s, 1, FirstIndex(s, old) - 1) \o new
            \o Replace(SubSeq(s, FirstIndex(s, old) + Len(old), Len(s)), old, new)

\* The index of the first character of s that is no space, 0 when there is none
FirstNonSpace(s) ==
    IF \E i \in 1..Len(s) : Ch(s, i) # " "
    THEN CHOOSE i \in 1..Len(s) : Ch(s, i) # " " /\ \A j \in 1..(i - 1) : Ch(s, j) = " "
    ELSE 0

\* s.split(): the maximal runs of characters that are no whitespace (the space is
\* the only whitespace in the strings of the model)
RECURSIVE Split(_)
Split(s) ==
    IF FirstNonSpace(s) = 0 THEN <<>>
    ELSE LET rest == SubSeq(s, FirstNonSpace(s), Len(s))
             stop == FirstIndex(rest, " ")
         IN  IF stop = 0 THEN <<rest>>
             ELSE <<SubSeq(rest, 1, stop - 1)>> \o Split(SubSeq(rest, stop, Len(rest)))

\* sep.join(words)
RECURSIVE Join(_, _)
Join(sep, words) ==
    IF words = <<>> THEN ""
    ELSE IF Len(words) = 1 THEN words[1]
    ELSE words[1] \o sep \o Join(sep, Tail(words))

\* the index of the last occurrence of the character c in s, 0 when there is none
LastIndex(s, c) ==
    IF \E i \in 1..Len(s) : Ch(s, i) = c
    THEN CHOOSE i \in 1..Len(s) : Ch(s, i) = c /\ \A j \in (i + 1)..Len(s) : Ch(s, j) # c
    ELSE 0

\* s.rsplit(sep, 1)[1], for s holding sep
AfterLast(s, sep) == SubSeq(s, LastIndex(s, sep) + 1, Len(s))

\* os.path.basename(path)
Basename(path) == AfterLast(path, "/")

\* str(n) for an integer n >= 0
Digits == "0123456789"
RECURSIVE IntStr(_)
IntStr(n) == IF n < 10 THEN Ch(Digits, n + 1) ELSE IntStr(n \div 10) \o Ch(Digits, (n % 10) + 1)

\* abs(n)
Abs(n) == IF n < 0 THEN -n ELSE n

Max(a, b) == IF a >= b THEN a ELSE b

RECURSIVE Spaces(_)
Spaces(n) == IF n <= 0 THEN "" ELSE " " \o Spaces(n - 1)

Range(seq) == {seq[i] : i \in 1..Len(seq)}

----------------------------------------------------------------------------
(* The class taxonomy: the list `classes` of makePrediction                *)

Taxonomy == <<
    "Apple___Apple_scab",
    "Apple___Black_rot",
    "Apple___Cedar_apple_rust",
    "Apple___healthy",
    "Blueberry___healthy",
    "Cherry_(including_sour)___Powdery_mildew",
    "Cherry_(including_sour)___healthy",
    "Corn_(maize)___Cercospora_leaf_spot Gray_leaf_spot",
    "Corn_(maize)___Common_rust_",
    "Corn_(maize)___Northern_Leaf_Blight",
    "Corn_(maize)___healthy",
    "Grape___Black_rot",
    "Grape___Esca_(Black_Measles)",
    "Grape___Leaf_blight_(Isariopsis_Leaf_Spot)",
    "Grape___healthy",
    "Orange___Haunglongbing_(Citrus_greening)",
    "Peach___Bacterial_spot",
    "Peach___healthy",
    "Pepper,_bell___Bacterial_spot",
    "Pepper,_bell___healthy",
    "Potato___Early_blight",
    "Potato___Late_blight",
    "Potato___healthy",
    "Raspberry___healthy",
    "Soybean___healthy",
    "Squash___Powdery_mildew",
    "Strawberry___Leaf_scorch",
    "Strawberry___healthy",
    "Tomato___Bacterial_spot",
    "Tomato___Early_blight",
    "Tomato___Late_blight",
    "Tomato___Leaf_Mold",
    "Tomato___Septoria_leaf_spot",
    "Tomato___Spider_mites Two-spotted_spider_mite",
    "Tomato___Target_Spot",
    "Tomato___Tomato_Yellow_Leaf_Curl_Virus",
    "Tomato___Tomato_mosaic_virus",
    "Tomato___healthy"
>>

\* 'healthy' in c.lower()
IsHealthy(c) == Contains(Lower(c), "healthy")

IsDisease(c) == ~IsHealthy(c)

\* healthy_classes = [c for c in classes if 'healthy' in c.lower()]
healthy_classes(classes) == SelectSeq(classes, IsHealthy)

\* disease_classes = [c for c in classes if 'healthy' not in c.lower()]
disease_classes(classes) == SelectSeq(classes, IsDisease)

----------------------------------------------------------------------------
(* app.py: format_prediction                                               *)

MinorWords == {"and", "or", "the", "of", "in", "on", "at", "to", "for", "with"}

FormatWord(word) ==
    IF Lower(word) \in MinorWords THEN Lower(word) ELSE Capitalize(word)

RECURSIVE FormatWords(_)
FormatWords(words) ==
    IF words = <<>> THEN <<>> ELSE <<FormatWord(Head(words))>> \o FormatWords(Tail(words))

format_prediction(prediction) ==
    IF prediction = "" THEN "Unknown condition"
    ELSE Join(" ", FormatWords(Split(Replace(Replace(prediction, "___", " - "), "_", " "))))

----------------------------------------------------------------------------
(* Outcomes of a call: a value returned, or an exception raised            *)

Ok(v) == [exc |-> "", val |-> v]
Exc(e) == [exc |-> e]
Raised(o) == o.exc # ""

----------------------------------------------------------------------------
(* The built-in hash of a string.  CPython keys it with a per-process      *)
(* seed; the keyed function is a polynomial hash over HashBits bits, read  *)
(* as a signed integer, in place of SipHash over 64.                       *)

HashModulus == 2 ^ HashBits

\* 31^n modulo HashModulus, by repeated squaring
RECURSIVE PowMod31(_)
PowMod31(n) ==
    IF n = 0 THEN 1
    ELSE IF n % 2 = 1 THEN (31 * PowMod31(n - 1)) % HashModulus
    ELSE (PowMod31(n \div 2) * PowMod31(n \div 2)) % HashModulus

\* h := 0; for c in s: h := (h * 31 + code(c)) mod HashModulus (the string is
\* halved to keep the evaluation shallow)
RECURSIVE HashPoly(_)
HashPoly(s) ==
    IF Len(s) = 1 THEN Pos(s, HashAlphabet) % HashModulus
    ELSE (HashPoly(SubSeq(s, 1, Len(s) \div 2)) * PowMod31(Len(s) - (Len(s) \div 2))
            + HashPoly(SubSeq(s, (Len(s) \div 2) + 1, Len(s)))) % HashModulus

\* for c in s: h := (h * 31 + code(c)) mod HashModulus
HashFrom(h, s) == (h * PowMod31(Len(s)) + HashPoly(s)) % HashModulus

Signed(u) == IF u >= HashModulus \div 2 THEN u - HashModulus ELSE u

\* hash(s) in a process whose seed is seed; hash("") is 0 under every seed
PyHashSeeded(s, seed) == IF s = "" THEN 0 ELSE Signed(HashFrom(seed + 1, s))

PyHash(s) == PyHashSeeded(s, hashSeed)

----------------------------------------------------------------------------
(* Files and PIL images                                                    *)

\* utilities.py: the dimension limits and the size cap
MIN_DIM == 50
MAX_DIM == 5000
MAX_FILE_BYTES == 16 * 1024 * 1024

\* None, as a path argument
PyNone == "<None>"

\* The content of a file: its length, what PIL identifies it as ("NONE": not an
\* image), the picture's size, its channel means and deviations, and whether
\* its pixel data is damaged (the header reads, the pixels do not decode).
Content(format, width, height, mean, std, bytes, corrupt) ==
    [exists |-> TRUE, format |-> format, width |-> width, height |-> height,
     mean |-> mean, std |-> std, bytes |-> bytes, corrupt |-> corrupt]

NoStd == <<0, 0, 0>>
Missing == [exists |-> FALSE, format |-> "NONE", width |-> 0, height |-> 0,
            mean |-> NoStd, std |-> NoStd, bytes |-> 0, corrupt |-> FALSE]

\* os.path.exists(path): TypeError for a path that is no string
PathExists(a) == IF a.path = PyNone THEN Exc("TypeError") ELSE Ok(a.file.exists)

\* Image.open(path): lazy, it reads the header only
ImageOpen(a) ==
    IF ~HAS_PIL THEN Exc("NameError")
    ELSE IF a.path = PyNone THEN Exc("AttributeError")
    ELSE IF ~a.file.exists THEN Exc("FileNotFoundError")
    ELSE IF a.file.format = "NONE" THEN Exc("UnidentifiedImageError")
    ELSE Ok([format |-> a.file.format, size |-> <<a.file.width, a.file.height>>,
             hasFilename |-> TRUE, filename |-> a.path,
             mean |-> a.file.mean, std |-> a.file.std, corrupt |-> a.file.corrupt])

\* img.convert('RGB'): decodes the pixels; the copy carries no filename and no format
Convert(img) ==
    IF img.corrupt THEN Exc("OSError")
    ELSE Ok([img EXCEPT !.hasFilename = FALSE, !.filename = "", !.format = "NONE"])

\* str(a) of a NumPy array of three whole-valued floats: "[  0. 255.   0.]"
NpCell(v, width) == Spaces(width - Len(IntStr(v)) - 1) \o IntStr(v) \o "."
NpStr(a) ==
    LET width == 1 + Max(Len(IntStr(a[1])), Max(Len(IntStr(a[2])), Len(IntStr(a[3]))))
    IN  "[" \o NpCell(a[1], width) \o " " \o NpCell(a[2], width) \o " "
            \o NpCell(a[3], width) \o "]"

----------------------------------------------------------------------------
(* utilities.py: mock_prediction                                           *)

\* Variant: the comparison written with >= in place of >.
GreenDominant_AtLeast(mean) == 10 * mean[2] >= 12 * mean[1] /\ 10 * mean[2] >= 12 * mean[3]

\* mean_color[1] > mean_color[0] * 1.2 and mean_color[1] > mean_color[2] * 1.2
GreenDominant(mean) == 10 * mean[2] > 12 * mean[1] /\ 10 * mean[2] > 12 * mean[3]

\* Variant: an even split, % 2 in place of % 4.
HashPicksHealthy_Half(filename_hash) == filename_hash % 2 = 0

\* filename_hash % 4 == 0
HashPicksHealthy(filename_hash) == filename_hash % 4 = 0

\* filename_hash of the branch without NumPy
FilenameHash(img) ==
    Abs(PyHash(IF img.hasFilename THEN img.filename
               ELSE IntStr(img.size[1] * img.size[2])))

\* Variant: the fallback forgets the class list.
Fallback_Unknown(classes) == "Unknown"

\* return classes[0] if classes else "Unknown"
Fallback(classes) == IF classes # <<>> THEN classes[1] ELSE "Unknown"

\* The body of the try block; fault: np.array / np.mean raises (no memory).
MockBody(img, classes, fault) ==
    LET healthy == healthy_classes(classes)
        disease == disease_classes(classes)
    IN  IF HAS_NUMPY
        THEN IF fault \/ img.corrupt THEN Exc("MemoryError")
             ELSE IF GreenDominant(img.mean) /\ healthy # <<>>
                  THEN Ok(healthy[(Abs(PyHash(NpStr(img.mean))) % Len(healthy)) + 1])
             ELSE IF disease # <<>>
                  THEN Ok(disease[(Abs(PyHash(NpStr(img.mean) \o NpStr(img.std)))
                                   % Len(disease)) + 1])
             ELSE Ok(Fallback(classes))
        ELSE LET filename_hash == FilenameHash(img)
             IN  IF HashPicksHealthy(filename_hash) /\ healthy # <<>>
                 THEN Ok(healthy[(filename_hash % Len(healthy)) + 1])
                 ELSE IF disease # <<>>
                      THEN Ok(disease[(filename_hash % Len(disease)) + 1])
                 ELSE Ok(Fallback(classes))

\* except Exception: return "Tomato___healthy"
MockHandler(o) == IF Raised(o) THEN Ok("Tomato___healthy") ELSE o

mock_prediction(img, classes, fault) == MockHandler(MockBody(img, classes, fault))

----------------------------------------------------------------------------
(* utilities.py: makePrediction                                            *)

TooSmall(width, height) == width < MIN_DIM \/ height < MIN_DIM
TooLarge(width, height) == width > MAX_DIM \/ height > MAX_DIM

\* The branch taken when PIL is missing: the base name's hash over the whole list
FilenamePrediction(path) ==
    Taxonomy[(Abs(PyHash(Basename(path))) % Len(Taxonomy)) + 1]

\* The inner try block: open, convert, check the dimensions.  It returns an
\* error string, or hands the converted image on.
LoadImage(a) ==
    LET opened == ImageOpen(a)
        img == IF Raised(opened) THEN opened ELSE Convert(opened.val)
    IN  IF Raised(img) THEN [error |-> "Error: Invalid image format"]
        ELSE IF TooSmall(img.val.size[1], img.val.size[2])
             THEN [error |-> "Error: Image too small for analysis"]
        ELSE IF TooLarge(img.val.size[1], img.val.size[2])
             THEN [error |-> "Error: Image too large for analysis"]
        ELSE [error |-> "", img |-> img.val]

MakeBody(a, fault) ==
    LET found == PathExists(a)
    IN  IF Raised(found) THEN found
        ELSE IF ~found.val THEN Ok("Error: Image file not found")
        ELSE IF ~HAS_PIL THEN Ok(FilenamePrediction(a.path))
        ELSE LET loaded == LoadImage(a)
             IN  IF loaded.error # "" THEN Ok(loaded.error)
                 ELSE mock_prediction(loaded.img, Taxonomy, fault)

\* except Exception: return "Error: Analysis failed"
MakeHandler(o) == IF Raised(o) THEN Ok("Error: Analysis failed") ELSE o

makePrediction(a, fault) == MakeHandler(MakeBody(a, fault))

----------------------------------------------------------------------------
(* utilities.py: actual_prediction, validate_image                         *)

ActualBody(a, fault) ==
    LET opened == ImageOpen(a)
    IN  IF Raised(opened) THEN opened ELSE mock_prediction(opened.val, <<>>, fault)

\* except Exception: return "Error: Prediction failed"
ActualHandler(o) == IF Raised(o) THEN Ok("Error: Prediction failed") ELSE o

actual_prediction(a, fault) == ActualHandler(ActualBody(a, fault))

AllowedFormats == {"JPEG", "PNG", "GIF"}

Invalid(message) == Ok([valid |-> FALSE, message |-> message])

ValidateBody(a) ==
    LET found == PathExists(a)
        opened == ImageOpen(a)
    IN  IF Raised(found) THEN found
        ELSE IF ~found.val THEN Invalid("Image file not found")
        ELSE IF a.file.bytes > MAX_FILE_BYTES THEN Invalid("Image file too large (max 16MB)")
        ELSE IF Raised(opened) THEN opened
        ELSE IF opened.val.format \notin AllowedFormats THEN Invalid("Unsupported image format")
        ELSE IF TooSmall(opened.val.size[1], opened.val.size[2])
             THEN Invalid("Image too small (minimum 50x50 pixels)")
        ELSE IF TooLarge(opened.val.size[1], opened.val.size[2])
             THEN Invalid("Image too large (maximum 5000x5000 pixels)")
        ELSE Ok([valid |-> TRUE, message |-> "Image is valid"])

\* except Exception as e: return False, f"Image validation failed: {str(e)}"
ValidateHandler(o) ==
    IF Raised(o) THEN Invalid("Image validation failed: " \o o.exc) ELSE o

validate_image(a) == ValidateHandler(ValidateBody(a))

----------------------------------------------------------------------------
(* app.py: the /api/predict handler and its helpers                        *)

IMAGE_FOLDER == "static"
ALLOWED_EXTENSIONS == {"png", "jpg", "jpeg", "gif"}

\* Variant: the test for a dot left out, so that the whole of a name without
\* one counts as its extension.
allowed_file_NoDotTest(filename) == Lower(AfterLast(filename, ".")) \in ALLOWED_EXTENSIONS

\* '.' in filename and filename.rsplit('.', 1)[1].lower() in ALLOWED_EXTENSIONS
allowed_file(filename) ==
    Contains(filename, ".") /\ Lower(AfterLast(filename, ".")) \in ALLOWED_EXTENSIONS

\* f"plant_{timestamp}_{unique_id}.{file_extension}"; stamp: the clock and the uuid
generate_unique_filename(filename, stamp) ==
    "plant_" \o stamp \o "." \o Lower(AfterLast(filename, "."))

\* round(85 + (hash(prediction) % 15), 1), round(70 + (hash(prediction) % 25), 1)
calculate_mock_confidence(prediction) ==
    IF Contains(Lower(prediction), "healthy")
    THEN 85 + (PyHash(prediction) % 15)
    ELSE 70 + (PyHash(prediction) % 25)

Json(status, body) == [status |-> status, body |-> body]

\* The body of the try block.  The request: whether it has an 'img' part, the
\* part's filename and content.  saveFails: img.save raises (disk, permissions).
ApiBody(req, stamp, saveFails, fault) ==
    IF ~req.hasImg
    THEN Ok(Json(400, [error |-> "No file uploaded", success |-> FALSE]))
    ELSE IF req.filename = ""
    THEN Ok(Json(400, [error |-> "No file selected", success |-> FALSE]))
    ELSE IF ~allowed_file(req.filename)
    THEN Ok(Json(400, [error |-> "Invalid file type", success |-> FALSE]))
    ELSE LET unique_filename == generate_unique_filename(req.filename, stamp)
             img_loc == [path |-> IMAGE_FOLDER \o "/" \o unique_filename, file |-> req.file]
             prediction == makePrediction(img_loc, fault).val
         IN  IF saveFails THEN Exc("OSError")
             ELSE Ok(Json(200, [success |-> TRUE,
                                original_prediction |-> prediction,
                                prediction |-> format_prediction(prediction),
                                image_url |-> unique_filename,
                                confidence |-> calculate_mock_confidence(prediction)]))

\* except Exception: return jsonify({'error': 'Analysis failed', 'success': False}), 500
ApiHandler(o) ==
    IF Raised(o) THEN Ok(Json(500, [error |-> "Analysis failed", success |-> FALSE])) ELSE o

api_predict(req, stamp, saveFails, fault) == ApiHandler(ApiBody(req, stamp, saveFails, fault))

----------------------------------------------------------------------------
(* The inputs the model draws from                                         *)

Seeds == 0..MaxSeed

Dims == {MIN_DIM - 1, MIN_DIM, MAX_DIM, MAX_DIM + 1}

GreenLeaf == <<40, 200, 30>>

\* Channel means <<red, green, blue>>: clearly green, clearly not, and the
\* boundary where green is exactly 1.2 times another channel, and next to it.
Means == {<<0, 255, 0>>, <<200, 100, 50>>, <<0, 0, 0>>, <<100, 120, 100>>,
          <<100, 121, 100>>, <<100, 120, 50>>, <<50, 120, 100>>, <<100, 121, 101>>}

Stds == {NoStd, <<10, 20, 30>>}

DimContents ==
    {Content("PNG", w, h, GreenLeaf, NoStd, 2048, FALSE) : w \in Dims, h \in Dims}

ColourContents ==
    {Content("JPEG", MIN_DIM, MIN_DIM, m, s, 2048, FALSE) : m \in Means, s \in Stds}

FormatContents ==
    {Content(f, d, d, GreenLeaf, NoStd, 2048, FALSE) :
        f \in {"JPEG", "PNG", "GIF", "BMP", "TIFF"}, d \in {MIN_DIM - 1, MIN_DIM}}

SizeContents ==
    {Content("JPEG", d, d, GreenLeaf, NoStd, b, FALSE) :
        b \in {MAX_FILE_BYTES, MAX_FILE_BYTES + 1}, d \in {MIN_DIM, MAX_DIM + 1}}

\* Bytes that are no image, and an image whose pixel data is cut off.
NotAnImage == Content("NONE", 0, 0, NoStd, NoStd, 2048, FALSE)
Truncated == Content("JPEG", MIN_DIM, MIN_DIM, GreenLeaf, NoStd, 2048, TRUE)

Contents ==
    DimContents \cup ColourContents \cup FormatContents \cup SizeContents
        \cup {NotAnImage, Truncated, Missing}

Paths == {"static/leaf.jpg", "uploads/scan_07.jpg"}

\* The arguments of a call that takes a path: the path and what the disk holds there.
PathArgs ==
    {[path |-> p, file |-> c] : p \in Paths, c \in Contents}
        \cup {[path |-> PyNone, file |-> Missing]}

\* The class lists handed to mock_prediction
ClassLists ==
    {Taxonomy, <<>>, <<"Rose___Black_spot", "Rose___Rust">>,
     <<"Rose___Black_spot", "Rose___Rust", "Rose___Mildew">>,
     <<"Mint___healthy">>, <<"Rose___Rust", "Mint___HEALTHY", "Fern___healthy">>}

\* The images handed to mock_prediction: opened, or opened and converted.
Images ==
    LET opened == {ImageOpen([path |-> p, file |-> c]).val :
                      p \in Paths, c \in ColourContents \cup {Truncated}}
    IN  opened \cup {Convert(i).val : i \in {o \in opened : ~o.corrupt}}

\* Raw labels handed to format_prediction
Labels ==
    Range(Taxonomy) \cup
    {"", "Error: Image file not found", "Unknown", "the_AND_of_Leaf", "rust_in_THE_stem",
     "Corn___Leaf___Spot", "a___b___c_d", "____", "apple_(RED)___with_scab"}

UploadNames ==
    {"", "leaf.jpg", "LEAF.PNG", "scan.gif", "photo.Jpeg", "notes.txt", "png",
     "archive.png.exe", "trailing.", ".gif"}

UploadContents ==
    {Content("JPEG", MIN_DIM, MIN_DIM, GreenLeaf, NoStd, 2048, FALSE),
     Content("PNG", MIN_DIM - 1, MIN_DIM - 1, GreenLeaf, NoStd, 2048, FALSE),
     Content("BMP", MIN_DIM, MIN_DIM, <<200, 100, 50>>, NoStd, 2048, FALSE),
     NotAnImage, Truncated}

Requests ==
    {[hasImg |-> TRUE, filename |-> n, file |-> c] : n \in UploadNames, c \in UploadContents}
        \cup {[hasImg |-> FALSE, filename |-> "", file |-> Missing]}

Stamps == {"20240101_000000_1a2b3c4d", "20240101_000001_5e6f7a8b"}

\* np.array can fail only where it is called: with PIL and NumPy both present
Faults == IF HAS_PIL /\ HAS_NUMPY THEN BOOLEAN ELSE {FALSE}

----------------------------------------------------------------------------
(* The state machine: one process serving one call at a time.  A call is   *)
(* made when the process is ready; its outcome stays in op, arg, ret until *)
(* the caller takes it (Done).  The code keeps nothing between calls but   *)
(* the import-time flags and the hash seed.                                *)

Idle == Ok("none")

Init ==
    /\ HAS_PIL \in BOOLEAN
    /\ HAS_NUMPY \in BOOLEAN
    /\ hashSeed \in Seeds
    /\ servedSeed = hashSeed
    /\ op = "ready"
    /\ arg = "none"
    /\ ret = Idle

MakePrediction ==
    /\ op = "ready"
    /\ \E a \in PathArgs, fault \in Faults :
        /\ op' = "makePrediction"
        /\ arg' = [path |-> a.path, file |-> a.file, fault |-> fault]
        /\ ret' = makePrediction(a, fault)
    /\ servedSeed' = hashSeed
    /\ UNCHANGED <<HAS_PIL, HAS_NUMPY, hashSeed>>

\* The caller asks again about the same file: the same path, the same bytes.
RepeatPrediction ==
    /\ op = "makePrediction"
    /\ ret' = makePrediction([path |-> arg.path, file |-> arg.file], arg.fault)
    /\ servedSeed' = hashSeed
    /\ UNCHANGED <<HAS_PIL, HAS_NUMPY, hashSeed, op, arg>>

ValidateImage ==
    /\ op = "ready"
    /\ \E a \in PathArgs :
        /\ op' = "validate_image"
        /\ arg' = a
        /\ ret' = validate_image(a)
    /\ servedSeed' = hashSeed
    /\ UNCHANGED <<HAS_PIL, HAS_NUMPY, hashSeed>>

ActualPrediction ==
    /\ op = "ready"
    /\ \E a \in PathArgs, fault \in Faults :
        /\ op' = "actual_prediction"
        /\ arg' = [path |-> a.path, file |-> a.file, fault |-> fault]
        /\ ret' = actual_prediction(a, fault)
    /\ servedSeed' = hashSeed
    /\ UNCHANGED <<HAS_PIL, HAS_NUMPY, hashSeed>>

\* A caller that holds a PIL image calls mock_prediction itself.
MockPrediction ==
    /\ op = "ready"
    /\ HAS_PIL
    /\ \E img \in Images, classes \in ClassLists, fault \in Faults :
        /\ op' = "mock_prediction"
        /\ arg' = [img |-> img, classes |-> classes, fault |-> fault]
        /\ ret' = mock_prediction(img, classes, fault)
    /\ servedSeed' = hashSeed
    /\ UNCHANGED <<HAS_PIL, HAS_NUMPY, hashSeed>>

FormatPrediction ==
    /\ op = "ready"
    /\ \E label \in Labels :
        /\ op' = "format_prediction"
        /\ arg' = label
        /\ ret' = Ok(format_prediction(label))
    /\ servedSeed' = hashSeed
    /\ UNCHANGED <<HAS_PIL, HAS_NUMPY, hashSeed>>

ApiPredict ==
    /\ op = "ready"
    /\ \E req \in Requests, stamp \in Stamps, saveFails \in BOOLEAN, fault \in Faults :
        /\ op' = "api_predict"
        /\ arg' = [req |-> req, stamp |-> stamp, saveFails |-> saveFails, fault |-> fault]
        /\ ret' = api_predict(req, stamp, saveFails, fault)
    /\ servedSeed' = hashSeed
    /\ UNCHANGED <<HAS_PIL, HAS_NUMPY, hashSeed>>

\* The caller has its answer; the process waits for the next call.
Done ==
    /\ op # "ready"
    /\ op' = "ready"
    /\ arg' = "none"
    /\ ret' = Idle
    /\ servedSeed' = hashSeed
    /\ UNCHANGED <<HAS_PIL, HAS_NUMPY, hashSeed>>

\* The process is restarted: the same installation, a fresh hash seed.  An
\* answer already given stays with its caller.
Restart ==
    /\ hashSeed' \in Seeds
    /\ servedSeed' = IF op = "ready" THEN hashSeed' ELSE servedSeed
    /\ UNCHANGED <<HAS_PIL, HAS_NUMPY, op, arg, ret>>

Next ==
    \/ MakePrediction
    \/ RepeatPrediction
    \/ ValidateImage
    \/ ActualPrediction
    \/ MockPrediction
    \/ FormatPrediction
    \/ ApiPredict
    \/ Done
    \/ Restart

Spec == Init /\ [][Next]_vars

----------------------------------------------------------------------------
(* Properties                                                              *)

ErrorPrefix == "Error:"
IsSentinel(label) == StartsWith(label, ErrorPrefix)

EndsWith(s, suffix) ==
    Len(s) >= Len(suffix) /\ SubSeq(s, Len(s) - Len(suffix) + 1, Len(s)) = suffix

\* hash(s) in the process that served the last call
ServedHash(s) == PyHashSeeded(s, servedSeed)

\* The call returned (did not raise) a label.
Returned == ~Raised(ret)

\* C1: for every /api/predict request that reaches makePrediction, the
\* response's 'success' is true exactly when 'original_prediction' does not
\* start with "Error:".
C1_SuccessIffNoErrorPrefix ==
    (op = "api_predict" /\ Returned /\ "original_prediction" \in DOMAIN ret.val.body)
        => (ret.val.body.success <=> ~IsSentinel(ret.val.body.original_prediction))

\* What the specification calls a failed validation or decoding of a file.
DimensionOutOfRange(f) ==
    f.width < 50 \/ f.height < 50 \/ f.width > 5000 \/ f.height > 5000

ValidationFails(f) ==
    \/ ~f.exists
    \/ f.bytes > 16 * 1024 * 1024
    \/ f.format \notin {"JPEG", "PNG", "GIF"}
    \/ DimensionOutOfRange(f)
    \/ f.corrupt

\* C2: in every capability configuration, the raw label of makePrediction
\* starts with "Error:" if and only if validation or decoding of the file
\* failed (missing, over 16 MiB, not JPEG/PNG/GIF, a side below 50 or above
\* 5000, undecodable bytes).
C2_ErrorIffValidationFailed ==
    (op = "makePrediction" /\ arg.path # PyNone /\ Returned)
        => (IsSentinel(ret.val) <=> ValidationFails(arg.file))

\* C3: every string returned by makePrediction, mock_prediction or
\* actual_prediction, for any input and any class list, is a member of the
\* 38-entry taxonomy or starts with "Error:".
C3_TaxonomyClosure ==
    (op \in {"makePrediction", "mock_prediction", "actual_prediction"} /\ Returned)
        => (ret.val \in Range(Taxonomy) \/ IsSentinel(ret.val))

\* C4: makePrediction called again with the identical path and the identical
\* bytes returns the identical raw label, in the same process and after the
\* process was restarted.
C4_Deterministic ==
    [][(op = "makePrediction" /\ op' = "makePrediction" /\ arg' = arg) => ret' = ret]_vars

\* The failures C5 names: a missing file, undecodable bytes, out-of-range
\* dimensions, a fault inside label selection.
IsFailure(a) ==
    \/ a.path = PyNone
    \/ ~a.file.exists
    \/ a.file.format = "NONE"
    \/ a.file.corrupt
    \/ DimensionOutOfRange(a.file)
    \/ a.fault

\* C5: makePrediction and validate_image never raise to their caller, and
\* every failure of makePrediction is returned as a string "Error: <reason>".
C5_FailuresAreSentinels ==
    /\ op \in {"makePrediction", "validate_image"} => Returned
    /\ (op = "makePrediction" /\ Returned /\ IsFailure(arg)) => IsSentinel(ret.val)

\* An existing, decodable image within the size cap and of an allowed format.
GoodFile(f) ==
    /\ f.exists
    /\ ~f.corrupt
    /\ f.bytes <= 16 * 1024 * 1024
    /\ f.format \in {"JPEG", "PNG", "GIF"}

\* C6: for an existing, decodable image within the size cap and of an allowed
\* format, validate_image reports it invalid, and makePrediction returns an
\* "Error:" sentinel, exactly when a side is below 50 or above 5000.
C6_DimensionBounds ==
    /\ (op = "validate_image" /\ Returned /\ arg.path # PyNone /\ GoodFile(arg.file))
          => (~ret.val.valid <=> DimensionOutOfRange(arg.file))
    /\ (op = "makePrediction" /\ Returned /\ arg.path # PyNone /\ GoodFile(arg.file))
          => (IsSentinel(ret.val) <=> DimensionOutOfRange(arg.file))

IsLetter(c) == IsUpperCh(c) \/ IsLowerCh(c)

\* The first letter of a word, "" for a word without letters.
RECURSIVE FirstLetter(_)
FirstLetter(word) ==
    IF word = "" THEN ""
    ELSE IF IsLetter(Head(word)) THEN Ch(word, 1)
    ELSE FirstLetter(Tail(word))

WordIsTitled(word) ==
    IF Lower(word) \in {"and", "or", "the", "of", "in", "on", "at", "to", "for", "with"}
    THEN word = Lower(word)
    ELSE FirstLetter(word) = "" \/ IsUpperCh(FirstLetter(word))

\* C7: for every non-empty string, every word of format_prediction's result
\* has its first letter in upper case, unless it is one of the ten minor words,
\* which are in lower case; the spider-mite label is formatted as
\* "Tomato - Spider Mites Two-spotted Spider Mite".
C7_TitleCase ==
    (op = "format_prediction" /\ arg # "")
        => /\ \A i \in 1..Len(Split(ret.val)) : WordIsTitled(Split(ret.val)[i])
           /\ arg = "Tomato___Spider_mites Two-spotted_spider_mite"
                 => ret.val = "Tomato - Spider Mites Two-spotted Spider Mite"

\* The filename ends in a dot and one of png, jpg, jpeg, gif, in any case.
HasImageExtension(filename) ==
    \E e \in {"png", "jpg", "jpeg", "gif"} : EndsWith(Lower(filename), "." \o e)

Rejected(req) ==
    ~req.hasImg \/ req.filename = "" \/ ~HasImageExtension(req.filename)

\* C8: a POST to /api/predict with no 'img' part, or an empty filename, or a
\* filename without an extension in {png, jpg, jpeg, gif}, is answered with
\* status 400 and a body that holds 'error' and success false.
C8_BadUploadIs400 ==
    (op = "api_predict" /\ Rejected(arg.req))
        => /\ Returned
           /\ ret.val.status = 400
           /\ "error" \in DOMAIN ret.val.body
           /\ ret.val.body.success = FALSE

C8_Witness ==
    /\ op = "api_predict"
    /\ arg.req.hasImg
    /\ arg.req.filename = "archive.png.exe"
    /\ arg.saveFails
    /\ ret.val.status = 400

\* mock_prediction was called on pixel statistics: NumPy is there and read the pixels.
MockSawPixels ==
    op = "mock_prediction" /\ Returned /\ HAS_NUMPY /\ ~arg.fault /\ ~arg.img.corrupt

\* makePrediction got as far as label selection: the file is there and PIL
\* decoded an image of a size within the limits.
MakeReachedSelection ==
    /\ op = "makePrediction" /\ Returned /\ HAS_PIL
    /\ arg.path # PyNone /\ arg.file.exists /\ arg.file.format # "NONE"
    /\ ~arg.file.corrupt /\ ~DimensionOutOfRange(arg.file)

MakeSawPixels == MakeReachedSelection /\ HAS_NUMPY /\ ~arg.fault

\* Green mean at least 1.2 times the red and the blue mean (1.2 = 12/10).
GreenAtLeast(mean) == 10 * mean[2] >= 12 * mean[1] /\ 10 * mean[2] >= 12 * mean[3]

\* Green mean more than 1.2 times the red and the blue mean.
GreenMoreThan(mean) == 10 * mean[2] > 12 * mean[1] /\ 10 * mean[2] > 12 * mean[3]

\* C9, as stated: with pixel statistics available the label is from the healthy
\* subset if the green mean is at least 1.2 times the red and the blue mean,
\* the boundary included, and from the diseased subset otherwise.
C9_AtLeastThreshold ==
    /\ (MockSawPixels /\ arg.classes = Taxonomy)
          => (IsHealthy(ret.val) <=> GreenAtLeast(arg.img.mean))
    /\ MakeSawPixels => (IsHealthy(ret.val) <=> GreenAtLeast(arg.file.mean))

\* C9, amended: with pixel statistics available the label is from the healthy
\* subset if the green mean is more than 1.2 times the red and the blue mean,
\* and from the diseased subset otherwise, the boundary (green exactly 1.2
\* times another channel) included in "otherwise"; each when the subset is not
\* empty.  A 50x50 pure-green image gets a healthy label.
C9_StrictThreshold ==
    /\ MockSawPixels =>
          /\ (GreenMoreThan(arg.img.mean) /\ healthy_classes(arg.classes) # <<>>)
                => ret.val \in Range(healthy_classes(arg.classes))
          /\ (~GreenMoreThan(arg.img.mean) /\ disease_classes(arg.classes) # <<>>)
                => ret.val \in Range(disease_classes(arg.classes))
    /\ MakeSawPixels =>
          /\ IsHealthy(ret.val) <=> GreenMoreThan(arg.file.mean)
          /\ ret.val \in Range(Taxonomy)
          /\ (arg.file.mean = <<0, 255, 0>> /\ arg.file.width = 50 /\ arg.file.height = 50)
                => IsHealthy(ret.val)

\* The boundary: green is exactly 1.2 times red, and the label is a disease.
C9_Witness ==
    /\ MakeSawPixels
    /\ arg.file.mean = <<100, 120, 100>>
    /\ ret.val \in Range(disease_classes(Taxonomy))

\* C10, as stated: in every path without pixel data (PIL missing, or NumPy
\* missing) the label is healthy exactly when the hash of the filename is
\* divisible by 4.
C10_SplitByFilenameHash ==
    (op = "makePrediction" /\ Returned /\ arg.path # PyNone /\ ~IsSentinel(ret.val)
        /\ (~HAS_PIL \/ ~HAS_NUMPY))
        => (IsHealthy(ret.val) <=> Abs(ServedHash(Basename(arg.path))) % 4 = 0)

\* What mock_prediction hashes without NumPy: the image's filename when it has
\* one, the decimal string of width times height when it has none.
SplitKey(img) ==
    IF img.hasFilename THEN img.filename ELSE IntStr(img.size[1] * img.size[2])

\* C10, amended: without NumPy (PIL present) the label is chosen by a 25%/75%
\* split on the hash mock_prediction computes (of the image's filename, or, for
\* an image without one, as every image makePrediction passes on, of the string
\* of width times height): healthy exactly when the hash is divisible by 4, each
\* when the subset is not empty.  Without PIL there is no split: the label is
\* the taxonomy entry at the hash of the file's base name modulo 38.
C10_SplitWithoutNumpy ==
    /\ (op = "mock_prediction" /\ Returned /\ ~HAS_NUMPY) =>
          /\ (Abs(ServedHash(SplitKey(arg.img))) % 4 = 0 /\ healthy_classes(arg.classes) # <<>>)
                => ret.val \in Range(healthy_classes(arg.classes))
          /\ (Abs(ServedHash(SplitKey(arg.img))) % 4 # 0 /\ disease_classes(arg.classes) # <<>>)
                => ret.val \in Range(disease_classes(arg.classes))
    /\ (MakeReachedSelection /\ ~HAS_NUMPY) =>
          /\ ret.val \in Range(Taxonomy)
          /\ IsHealthy(ret.val)
                <=> Abs(ServedHash(IntStr(arg.file.width * arg.file.height))) % 4 = 0
    /\ (op = "makePrediction" /\ Returned /\ ~HAS_PIL /\ arg.path # PyNone /\ arg.file.exists)
          => ret.val = Taxonomy[(Abs(ServedHash(Basename(arg.path))) % 38) + 1]

\* Without NumPy, a hash divisible by 4 and a healthy label.
C10_Witness ==
    /\ MakeReachedSelection /\ ~HAS_NUMPY
    /\ Abs(ServedHash(IntStr(arg.file.width * arg.file.height))) % 4 = 0
    /\ IsHealthy(ret.val)

\* mock_prediction got as far as the branch decision: nothing was raised before it.
MockDecided ==
    op = "mock_prediction" /\ Returned /\ (HAS_NUMPY => (~arg.fault /\ ~arg.img.corrupt))

\* The branch decision picked the healthy subset: a green-dominant image with
\* NumPy, a hash divisible by 4 without.
ChoseHealthy ==
    IF HAS_NUMPY THEN GreenMoreThan(arg.img.mean)
    ELSE Abs(ServedHash(SplitKey(arg.img))) % 4 = 0

ChosenSubset ==
    IF ChoseHealthy THEN healthy_classes(arg.classes) ELSE disease_classes(arg.classes)

\* The hash that indexes the diseased subset.
DiseaseHash ==
    IF HAS_NUMPY THEN Abs(ServedHash(NpStr(arg.img.mean) \o NpStr(arg.img.std)))
    ELSE Abs(ServedHash(SplitKey(arg.img)))

\* C11, as stated: whenever the subset chosen by the branch decision (healthy
\* for a green-dominant image, diseased otherwise) is empty, mock_prediction
\* returns the first element of the full class list, not an element of the
\* other subset picked by hash.
C11_FirstOfFullList ==
    (MockDecided /\ arg.classes # <<>> /\ ChosenSubset = <<>>) => ret.val = arg.classes[1]

\* C11, amended: when the healthy subset is chosen and is empty, the selection
\* falls through to the diseased subset and returns its element at the hash
\* modulo its length; the first element of the full class list is returned only
\* when the diseased subset is empty and no healthy element was selected, and
\* "Unknown" when the class list itself is empty.
C11_FallThroughToDiseased ==
    MockDecided =>
        /\ (ChoseHealthy /\ healthy_classes(arg.classes) = <<>>
                /\ disease_classes(arg.classes) # <<>>)
              => ret.val = disease_classes(arg.classes)
                              [(DiseaseHash % Len(disease_classes(arg.classes))) + 1]
        /\ (ChosenSubset = <<>> /\ disease_classes(arg.classes) = <<>>)
              => ret.val = (IF arg.classes # <<>> THEN arg.classes[1] ELSE "Unknown")

\* A green-dominant image, a class list without a healthy entry, and a result
\* from the diseased subset that is not the first element of the list.
C11_Witness ==
    /\ MockDecided /\ HAS_NUMPY /\ GreenMoreThan(arg.img.mean)
    /\ healthy_classes(arg.classes) = <<>>
    /\ ret.val \in Range(disease_classes(arg.classes))
    /\ ret.val # arg.classes[1]

\* The number of "___" separators of a raw label, counted left to right without overlap.
RECURSIVE CountSep(_)
CountSep(label) ==
    IF FirstIndex(label, "___") = 0 THEN 0
    ELSE 1 + CountSep(SubSeq(label, FirstIndex(label, "___") + 3, Len(label)))

IsDash(word) == word = "-"

\* The number of " - " separators of a display string: its words that are a lone hyphen.
DashWords(display) == Len(SelectSeq(Split(display), IsDash))

\* The raw label has a hyphen that stands alone between underscores, spaces or the ends.
HyphenAlone(label) ==
    \E i \in 1..Len(label) :
        /\ Ch(label, i) = "-"
        /\ (i > 1 => Ch(label, i - 1) \in {"_", " "})
        /\ (i < Len(label) => Ch(label, i + 1) \in {"_", " "})

FormattedLabel ==
    op = "format_prediction" /\ Returned /\ arg # "" /\ ~HyphenAlone(arg)

\* C12, as stated: for a non-empty raw label only the first "___" becomes " - "
\* and every other underscore a space, so a label with one or more "___"
\* separators gives a display string with exactly one " - " and no underscore.
C12_OnlyFirstSeparator ==
    (FormattedLabel /\ CountSep(arg) >= 1) =>
        (DashWords(ret.val) = 1 /\ ~Contains(ret.val, "_"))

\* C12, amended: for a non-empty raw label every "___" becomes " - " and every
\* remaining underscore a space, so the display string has as many " - " as the
\* label has "___" separators (two for a label with two) and no underscore.
C12_EverySeparator ==
    FormattedLabel =>
        (DashWords(ret.val) = CountSep(arg) /\ ~Contains(ret.val, "_"))

\* A label with two "___" separators and its display string with two " - ".
C12_Witness ==
    /\ FormattedLabel /\ CountSep(arg) = 2
    /\ arg = "Corn___Leaf___Spot" /\ ret.val = "Corn - Leaf - Spot"

=============================================================================
